---- MODULE Spec2Model ----
(***************************************************************************)
(* extract_fit_results.cc: the batch driver extract_fit_results, the       *)
(* per-file aggregator fill_maps and the name parser parse_amplitude.      *)
(*                                                                         *)
(* A std::string is a sequence of one-character strings, so that find,     *)
(* rfind, substr, operator+ and operator< are computed as the library      *)
(* computes them.  A std::map is a function on its key set; iterating it   *)
(* visits the keys in ascending operator< order (SortedKeys).  A value     *)
(* returned by the FitResults library is opaque: it is the 4-tuple         *)
(* <<query, file path, argument names, part>> of the call that made it.    *)
(***************************************************************************)
EXTENDS Integers, Sequences, FiniteSets, TLC

VARIABLES disk, file_vector, is_acceptance_corrected, pc, fi, ri, ai, pi,
          standard_results, production_coefficients, coherent_sums,
          phase_diffs, csv_file

vars == <<disk, file_vector, is_acceptance_corrected, pc, fi, ri, ai, pi,
          standard_results, production_coefficients, coherent_sums,
          phase_diffs, csv_file>>

(***************************************************************************)
(* Bounds of the explored inputs.                                          *)
(***************************************************************************)
\* longest file list of a batch run
MaxFiles == 3
\* longest amplitude list of the first reaction of a generated file (the
\* second reaction lists one amplitude less)
MaxAmps == 3

(***************************************************************************)
(* std::string                                                             *)
(***************************************************************************)
\* std::string::npos is the largest size_t; the code only tests it for
\* equality and adds 2 to it (which wraps to 1), and -1 behaves the same.
NPos == -1

Ord ==
  ("." :> 46) @@ ("0" :> 48) @@ ("1" :> 49) @@ ("2" :> 50) @@ ("3" :> 51) @@
  ("4" :> 52) @@ ("5" :> 53) @@ ("6" :> 54) @@ ("7" :> 55) @@ ("8" :> 56) @@
  ("9" :> 57) @@ (":" :> 58) @@ ("A" :> 65) @@ ("B" :> 66) @@ ("C" :> 67) @@
  ("D" :> 68) @@ ("E" :> 69) @@ ("F" :> 70) @@ ("G" :> 71) @@ ("H" :> 72) @@
  ("I" :> 73) @@ ("J" :> 74) @@ ("K" :> 75) @@ ("L" :> 76) @@ ("M" :> 77) @@
  ("N" :> 78) @@ ("O" :> 79) @@ ("P" :> 80) @@ ("Q" :> 81) @@ ("R" :> 82) @@
  ("S" :> 83) @@ ("T" :> 84) @@ ("U" :> 85) @@ ("V" :> 86) @@ ("W" :> 87) @@
  ("X" :> 88) @@ ("Y" :> 89) @@ ("Z" :> 90) @@ ("_" :> 95) @@ ("a" :> 97) @@
  ("b" :> 98) @@ ("c" :> 99) @@ ("d" :> 100) @@ ("e" :> 101) @@
  ("f" :> 102) @@ ("g" :> 103) @@ ("h" :> 104) @@ ("i" :> 105) @@
  ("j" :> 106) @@ ("k" :> 107) @@ ("l" :> 108) @@ ("m" :> 109) @@
  ("n" :> 110) @@ ("o" :> 111) @@ ("p" :> 112) @@ ("q" :> 113) @@
  ("r" :> 114) @@ ("s" :> 115) @@ ("t" :> 116) @@ ("u" :> 117) @@
  ("v" :> 118) @@ ("w" :> 119) @@ ("x" :> 120) @@ ("y" :> 121) @@
  ("z" :> 122)

MinOf(S) == CHOOSE x \in S : \A y \in S : x <= y
MaxOf(S) == CHOOSE x \in S : \A y \in S : y <= x

\* the positions (from 0) at which pat occurs in s
Occurrences(s, pat) ==
  {i \in 0..Len(s) : /\ i + Len(pat) <= Len(s)
                     /\ SubSeq(s, i + 1, i + Len(pat)) = pat}

\* s.find(pat)
Find(s, pat) ==
  IF Occurrences(s, pat) = {} THEN NPos ELSE MinOf(Occurrences(s, pat))

\* s.rfind(pat)
RFind(s, pat) ==
  IF Occurrences(s, pat) = {} THEN NPos ELSE MaxOf(Occurrences(s, pat))

\* s.substr(pos, n), for pos <= s.size() (a larger pos throws out_of_range,
\* which no name of the explored inputs reaches)
Substr(s, pos, n) ==
  SubSeq(s, pos + 1, IF pos + n < Len(s) THEN pos + n ELSE Len(s))

\* s.substr(pos)
SubstrFrom(s, pos) == SubSeq(s, pos + 1, Len(s))

\* operator< of std::string: byte-wise lexicographic, a proper prefix first
StringLess(a, b) ==
  LET n == IF Len(a) < Len(b) THEN Len(a) ELSE Len(b)
      diff == {i \in 1..n : a[i] # b[i]}
  IN  IF diff = {} THEN Len(a) < Len(b)
      ELSE Ord[a[MinOf(diff)]] < Ord[b[MinOf(diff)]]

(***************************************************************************)
(* String literals of the source.                                          *)
(***************************************************************************)
s_sep == <<":", ":">>
s_underscore == <<"_">>
s_Bkgd == <<"B", "k", "g", "d">>
s_iso == <<"i", "s", "o">>
s_err == <<"_", "e", "r", "r">>
s_re == <<"_", "r", "e">>
s_im == <<"_", "i", "m">>
s_eJPmL == <<"e", "J", "P", "m", "L">>
s_JPmL == <<"J", "P", "m", "L">>
s_eJPL == <<"e", "J", "P", "L">>
s_JPL == <<"J", "P", "L">>
s_eJP == <<"e", "J", "P">>
s_JP == <<"J", "P">>
s_e == <<"e">>
s_eMatrixStatus ==
  <<"e", "M", "a", "t", "r", "i", "x", "S", "t", "a", "t", "u", "s">>
s_lastMinuitCommandStatus ==
  <<"l", "a", "s", "t", "M", "i", "n", "u", "i", "t", "C", "o", "m", "m",
    "a", "n", "d", "S", "t", "a", "t", "u", "s">>
s_likelihood == <<"l", "i", "k", "e", "l", "i", "h", "o", "o", "d">>
s_detected_events ==
  <<"d", "e", "t", "e", "c", "t", "e", "d", "_", "e", "v", "e", "n", "t", "s">>
s_detected_events_err == s_detected_events \o s_err
s_generated_events ==
  <<"g", "e", "n", "e", "r", "a", "t", "e", "d", "_", "e", "v", "e", "n", "t",
    "s">>
s_generated_events_err == s_generated_events \o s_err

\* the vector coherent_sum_types, in its declared order
coherent_sum_types ==
  <<s_eJPmL, s_JPmL, s_eJPL, s_JPL, s_eJP, s_JP, s_e>>

(***************************************************************************)
(* std::map                                                                *)
(***************************************************************************)
EmptyMap == [k \in {} |-> <<>>]

\* m[k] = v
Put(m, k, v) == [x \in (DOMAIN m) \cup {k} |-> IF x = k THEN v ELSE m[x]]

\* m[k].push_back(x): operator[] makes an empty vector for a new key
PushBack(m, k, x) ==
  Put(m, k, Append(IF k \in DOMAIN m THEN m[k] ELSE <<>>, x))

RECURSIVE SortedSeq(_)
SortedSeq(S) ==
  IF S = {} THEN <<>>
  ELSE LET least == CHOOSE k \in S : \A j \in S : j = k \/ StringLess(k, j)
       IN  <<least>> \o SortedSeq(S \ {least})

RECURSIVE Reversed(_)
Reversed(seq) ==
  IF seq = <<>> THEN <<>> ELSE Append(Reversed(Tail(seq)), Head(seq))

\* SortedKeys with the comparison turned around (a map ordered by greater)
SortedKeys_Descending(m) == Reversed(SortedSeq(DOMAIN m))

\* the keys of a map in the order a range-for visits them
SortedKeys(m) == SortedSeq(DOMAIN m)

RECURSIVE Concat(_)
Concat(ss) == IF ss = <<>> THEN <<>> ELSE Head(ss) \o Concat(Tail(ss))

(***************************************************************************)
(* The FitResults handle of a file: what the library reports for it.  A    *)
(* handle is the record [path, valid, reactionList, ampList, parNameList]; *)
(* each numeric answer is the opaque tuple of the query that produced it.  *)
(***************************************************************************)
Answer(results, query, arg, part) == <<query, results.path, arg, part>>

\* results.intensity(accCorrected), .first / .second
intensity(results, acc, part) ==
  Answer(results, IF acc THEN "intensity(true)" ELSE "intensity(false)",
         <<>>, part)

\* results.intensity(amp_vector, is_acceptance_corrected), .first / .second
intensityOf(results, amp_vector, acc, part) ==
  Answer(results, IF acc THEN "intensity(amps,true)"
                         ELSE "intensity(amps,false)", amp_vector, part)

\* results.phaseDiff(first, second), .first / .second
phaseDiff(results, pd_pair, part) ==
  Answer(results, "phaseDiff", pd_pair, part)

\* results.scaledProductionParameter(amplitude), a complex number
scaledProductionParameter(results, amplitude) ==
  [real |-> Answer(results, "scaledProductionParameter", <<amplitude>>, "real"),
   imag |-> Answer(results, "scaledProductionParameter", <<amplitude>>, "imag")]

(***************************************************************************)
(* parse_amplitude and the steps of fill_maps                              *)
(***************************************************************************)
\* the trailing "eJPmL" segment of a full amplitude name
Segment(amplitude) == SubstrFrom(amplitude, RFind(amplitude, s_sep) + 2)

\* parse_amplitude with JP cut one character short
parse_amplitude_ShortJP(amplitude) ==
  LET eJPmL == Segment(amplitude)
  IN  [e  |-> Substr(eJPmL, 0, 1),
       JP |-> Substr(eJPmL, 1, 1),
       m  |-> Substr(eJPmL, 3, 1),
       L  |-> SubstrFrom(eJPmL, 4)]

parse_amplitude(amplitude) ==
  LET eJPmL == Segment(amplitude)
  IN  [e  |-> Substr(eJPmL, 0, 1),
       JP |-> Substr(eJPmL, 1, 2),
       m  |-> Substr(eJPmL, 3, 1),
       L  |-> SubstrFrom(eJPmL, 4)]

\* the isotropic-background test made on amplitude and on pd_amplitude
IsBackground(amplitude) ==
  \/ Find(amplitude, s_Bkgd) # NPos
  \/ Find(amplitude, s_iso) # NPos

\* the seven assignments at the head of fill_maps
StoreStandardResults(results, sr) ==
  LET s1 == Put(sr, s_eMatrixStatus, Answer(results, "eMatrixStatus", <<>>, ""))
      s2 == Put(s1, s_lastMinuitCommandStatus,
                Answer(results, "lastMinuitCommandStatus", <<>>, ""))
      s3 == Put(s2, s_likelihood, Answer(results, "likelihood", <<>>, ""))
      s4 == Put(s3, s_detected_events, intensity(results, FALSE, "first"))
      s5 == Put(s4, s_detected_events_err, intensity(results, FALSE, "second"))
      s6 == Put(s5, s_generated_events, intensity(results, TRUE, "first"))
  IN  Put(s6, s_generated_events_err, intensity(results, TRUE, "second"))

\* coherent_sums["eJPmL"]["Bkgd"].push_back(amplitude)
StoreBackground(cs, amplitude) ==
  Put(cs, s_eJPmL,
      PushBack(IF s_eJPmL \in DOMAIN cs THEN cs[s_eJPmL] ELSE EmptyMap,
               s_Bkgd, amplitude))

\* coherent_sums[tag][key].push_back(amplitude)
PushSum(cs, tag, key, amplitude) ==
  Put(cs, tag,
      PushBack(IF tag \in DOMAIN cs THEN cs[tag] ELSE EmptyMap, key, amplitude))

\* StoreCoherentSums with the JPL sum keyed by JP + m
StoreCoherentSums_WrongKey(cs, amplitude) ==
  LET q == parse_amplitude(amplitude)
      c1 == PushSum(cs, s_eJPmL, Segment(amplitude), amplitude)
      c2 == PushSum(c1, s_JPmL, q.JP \o q.m \o q.L, amplitude)
      c3 == PushSum(c2, s_eJPL, q.e \o q.JP \o q.L, amplitude)
      c4 == PushSum(c3, s_JPL, q.JP \o q.m, amplitude)
      c5 == PushSum(c4, s_eJP, q.e \o q.JP, amplitude)
      c6 == PushSum(c5, s_JP, q.JP, amplitude)
  IN  PushSum(c6, s_e, q.e, amplitude)

\* the seven push_backs of a parsed amplitude
StoreCoherentSums(cs, amplitude) ==
  LET q == parse_amplitude(amplitude)
      c1 == PushSum(cs, s_eJPmL, Segment(amplitude), amplitude)
      c2 == PushSum(c1, s_JPmL, q.JP \o q.m \o q.L, amplitude)
      c3 == PushSum(c2, s_eJPL, q.e \o q.JP \o q.L, amplitude)
      c4 == PushSum(c3, s_JPL, q.JP \o q.L, amplitude)
      c5 == PushSum(c4, s_eJP, q.e \o q.JP, amplitude)
      c6 == PushSum(c5, s_JP, q.JP, amplitude)
  IN  PushSum(c6, s_e, q.e, amplitude)

\* production_coefficients[eJPmL] = results.scaledProductionParameter(amplitude)
StoreProductionCoefficient(results, coeffs, amplitude) ==
  Put(coeffs, Segment(amplitude), scaledProductionParameter(results, amplitude))

\* StorePhaseDiff without the test for the reversed key
StorePhaseDiff_NoReverseCheck(pd, amplitude, pd_amplitude) ==
  LET eJPmL == Segment(amplitude)
      pd_eJPmL == Segment(pd_amplitude)
  IN  IF pd_amplitude = amplitude THEN pd
      ELSE IF IsBackground(pd_amplitude) THEN pd
      ELSE IF eJPmL[1] # pd_eJPmL[1] THEN pd
      ELSE Put(pd, eJPmL \o s_underscore \o pd_eJPmL, <<amplitude, pd_amplitude>>)

\* StorePhaseDiff without the test of the reflectivities
StorePhaseDiff_NoReflectivityCheck(pd, amplitude, pd_amplitude) ==
  LET eJPmL == Segment(amplitude)
      pd_eJPmL == Segment(pd_amplitude)
  IN  IF pd_amplitude = amplitude THEN pd
      ELSE IF IsBackground(pd_amplitude) THEN pd
      ELSE IF (pd_eJPmL \o s_underscore \o eJPmL) \in DOMAIN pd THEN pd
      ELSE Put(pd, eJPmL \o s_underscore \o pd_eJPmL, <<amplitude, pd_amplitude>>)

\* one pass of the inner loop over pd_amplitude
StorePhaseDiff(pd, amplitude, pd_amplitude) ==
  LET eJPmL == Segment(amplitude)
      pd_eJPmL == Segment(pd_amplitude)
  IN  IF pd_amplitude = amplitude THEN pd
      ELSE IF IsBackground(pd_amplitude) THEN pd
      ELSE IF (pd_eJPmL \o s_underscore \o eJPmL) \in DOMAIN pd THEN pd
      ELSE IF eJPmL[1] # pd_eJPmL[1] THEN pd
      ELSE Put(pd, eJPmL \o s_underscore \o pd_eJPmL, <<amplitude, pd_amplitude>>)

\* the maps as one record, for fill_maps taken as a function of its arguments
Maps(sr, coeffs, cs, pd) ==
  [standard_results |-> sr, production_coefficients |-> coeffs,
   coherent_sums |-> cs, phase_diffs |-> pd]

RECURSIVE PhaseDiffLoop(_, _, _)
PhaseDiffLoop(pd, amplitude, amps) ==
  IF amps = <<>> THEN pd
  ELSE PhaseDiffLoop(StorePhaseDiff(pd, amplitude, Head(amps)), amplitude,
                     Tail(amps))

\* the body of the loop over the amplitudes of one reaction
AmplitudeBody(results, M, amplitude, amps) ==
  IF IsBackground(amplitude)
  THEN [M EXCEPT !.coherent_sums = StoreBackground(@, amplitude)]
  ELSE Maps(M.standard_results,
            StoreProductionCoefficient(results, M.production_coefficients,
                                       amplitude),
            StoreCoherentSums(M.coherent_sums, amplitude),
            PhaseDiffLoop(M.phase_diffs, amplitude, amps))

RECURSIVE AmplitudeLoop(_, _, _, _)
AmplitudeLoop(results, M, rest, amps) ==
  IF rest = <<>> THEN M
  ELSE AmplitudeLoop(results, AmplitudeBody(results, M, Head(rest), amps),
                     Tail(rest), amps)

RECURSIVE ReactionLoop(_, _, _)
ReactionLoop(results, M, reactions) ==
  IF reactions = <<>> THEN M
  ELSE ReactionLoop(results,
                    AmplitudeLoop(results, M, results.ampList[Head(reactions)],
                                  results.ampList[Head(reactions)]),
                    Tail(reactions))

\* fill_maps as a function: the maps it leaves, given the maps it is handed
fill_maps(results, M) ==
  ReactionLoop(results,
               [M EXCEPT !.standard_results = StoreStandardResults(results, @)],
               results.reactionList)

\* ClearSums that leaves the groups of the last file in place
ClearSums_Skipped(cs) == cs

\* the loop "for (key, val) : coherent_sums  val.clear()": every tag keeps
\* its entry and loses its groups
ClearSums(cs) == [tag \in DOMAIN cs |-> EmptyMap]

\* the maps as extract_fit_results builds them before the file loop
InitialSums == [tag \in {coherent_sum_types[i] : i \in 1..Len(coherent_sum_types)}
                  |-> EmptyMap]

(***************************************************************************)
(* The csv stream.  csv_file is the sequence of what operator<< was given: *)
(* a cell (a text or a number, each followed by its comma) or the "\n".    *)
(***************************************************************************)
NameCell(name) == <<"name", "", <<name>>, "">>
NewLine == <<"\n", "", <<>>, "">>

FlatMap(seq, Op(_)) == Concat([i \in 1..Len(seq) |-> Op(seq[i])])

\* par_name.find("::") != npos: an amplitude-based parameter, skipped
IsAmplitudeParameter(par_name) == Find(par_name, s_sep) # NPos

\* the header row, without its "\n"
HeaderCells(results, M) ==
  FlatMap(SortedKeys(M.standard_results), LAMBDA key : <<NameCell(key)>>)
  \o FlatMap(results.parNameList,
             LAMBDA par_name :
               IF IsAmplitudeParameter(par_name) THEN <<>>
               ELSE <<NameCell(par_name), NameCell(par_name \o s_err)>>)
  \o FlatMap(SortedKeys(M.production_coefficients),
             LAMBDA key : <<NameCell(key \o s_re), NameCell(key \o s_im)>>)
  \o FlatMap(SortedKeys(M.coherent_sums),
             LAMBDA sum_name :
               FlatMap(SortedKeys(M.coherent_sums[sum_name]),
                       LAMBDA sum : <<NameCell(sum), NameCell(sum \o s_err)>>))
  \o FlatMap(SortedKeys(M.phase_diffs),
             LAMBDA pd_name : <<NameCell(pd_name), NameCell(pd_name \o s_err)>>)

\* the values of one file, in the order of the same map loops
RowCells(results, M, acc) ==
  FlatMap(SortedKeys(M.standard_results),
          LAMBDA key : <<M.standard_results[key]>>)
  \o FlatMap(results.parNameList,
             LAMBDA par_name :
               IF IsAmplitudeParameter(par_name) THEN <<>>
               ELSE <<Answer(results, "parValue", <<par_name>>, ""),
                      Answer(results, "parError", <<par_name>>, "")>>)
  \o FlatMap(SortedKeys(M.production_coefficients),
             LAMBDA key : <<M.production_coefficients[key].real,
                            M.production_coefficients[key].imag>>)
  \o FlatMap(SortedKeys(M.coherent_sums),
             LAMBDA sum_name :
               FlatMap(SortedKeys(M.coherent_sums[sum_name]),
                       LAMBDA sum :
                         <<intensityOf(results, M.coherent_sums[sum_name][sum],
                                       acc, "first"),
                           intensityOf(results, M.coherent_sums[sum_name][sum],
                                       acc, "second")>>))
  \o FlatMap(SortedKeys(M.phase_diffs),
             LAMBDA pd_name :
               <<phaseDiff(results, M.phase_diffs[pd_name], "first"),
                 phaseDiff(results, M.phase_diffs[pd_name], "second")>>)

(***************************************************************************)
(* Inputs: the fit files on disk and the file list.                        *)
(***************************************************************************)
s_R1 == <<"R", "1">>
s_R2 == <<"R", "2">>
s_S == <<"S">>
s_T == <<"T">>
s_p1p0S == <<"p", "1", "p", "0", "S">>
s_p1ppD == <<"p", "1", "p", "p", "D">>
s_m1p0S == <<"m", "1", "p", "0", "S">>
s_dsratio == <<"d", "s", "r", "a", "t", "i", "o">>

\* AmpTools names an amplitude "reaction::reflectivitySum::eJPmL"
AmpName(reaction, sum, eJPmL) == reaction \o s_sep \o sum \o s_sep \o eJPmL

\* the parameter list of every explored file: one free parameter and one
\* amplitude-based parameter
ParNames == <<s_dsratio, AmpName(s_R1, s_S, s_p1p0S) \o s_re>>

FitFile(path, valid, reactionList, ampList) ==
  [path |-> path, valid |-> valid, reactionList |-> reactionList,
   ampList |-> ampList, parNameList |-> ParNames]

\* the amplitudes a reaction of a generated file may list.  The first
\* reaction: a wave under two reflectivity sums, a second wave of the same
\* reflectivity, a wave of the other reflectivity, and the isotropic
\* background; a second reaction: the two waves of one reflectivity and the
\* background under its other marker
Universe(reaction) ==
  IF reaction = s_R1
  THEN {AmpName(reaction, s_S, s_p1p0S), AmpName(reaction, s_T, s_p1p0S),
        AmpName(reaction, s_S, s_p1ppD), AmpName(reaction, s_S, s_m1p0S),
        AmpName(reaction, s_S, s_Bkgd)}
  ELSE {AmpName(reaction, s_S, s_p1p0S), AmpName(reaction, s_S, s_p1ppD),
        AmpName(reaction, s_S, s_iso)}

\* the lists of at most n distinct members of U
AmpLists(U, n) ==
  UNION {{s \in [1..k -> U] : \A i, j \in 1..k : i # j => s[i] # s[j]}
         : k \in 0..n}

\* the batch: three valid files and an invalid one
BatchDisk ==
  [p \in {"a.fit", "b.fit", "c.fit", "bad.fit"} |->
     CASE p = "a.fit" ->
            FitFile(p, TRUE, <<s_R1>>,
                    (s_R1 :> <<AmpName(s_R1, s_S, s_p1p0S),
                               AmpName(s_R1, s_S, s_m1p0S),
                               AmpName(s_R1, s_S, s_p1ppD)>>))
       [] p = "b.fit" ->
            FitFile(p, TRUE, <<s_R1, s_R2>>,
                    (s_R1 :> <<AmpName(s_R1, s_S, s_p1ppD),
                               AmpName(s_R1, s_S, s_p1p0S),
                               AmpName(s_R1, s_S, s_Bkgd)>>)
                    @@ (s_R2 :> <<AmpName(s_R2, s_S, s_p1p0S),
                                  AmpName(s_R2, s_S, s_p1ppD)>>))
       [] p = "c.fit" ->
            FitFile(p, TRUE, <<s_R1>>,
                    (s_R1 :> <<AmpName(s_R1, s_S, s_p1ppD),
                               AmpName(s_R1, s_S, s_m1p0S),
                               AmpName(s_R1, s_S, s_p1p0S)>>))
       [] OTHER ->
            FitFile(p, FALSE, <<s_R1>>,
                    (s_R1 :> <<AmpName(s_R1, s_T, s_p1p0S)>>))]

BatchLists == UNION {[1..n -> DOMAIN BatchDisk] : n \in 0..MaxFiles}

\* one generated file of one or two reactions
GeneratedDisks ==
  {[p \in {"x.fit"} |-> FitFile(p, TRUE, <<s_R1>>, (s_R1 :> a1))]
     : a1 \in AmpLists(Universe(s_R1), MaxAmps)}
  \cup
  {[p \in {"x.fit"} |->
      FitFile(p, TRUE, <<s_R1, s_R2>>, (s_R1 :> a1) @@ (s_R2 :> a2))]
     : a1 \in AmpLists(Universe(s_R1), MaxAmps),
       a2 \in AmpLists(Universe(s_R2), MaxAmps - 1)}

(***************************************************************************)
(* extract_fit_results: the state before the file loop, and its steps.     *)
(* fi indexes file_vector; ri, ai and pi index the reaction, the amplitude *)
(* and the pd_amplitude loops of fill_maps (1 outside their loop).         *)
(***************************************************************************)
Init ==
  /\ \/ disk = BatchDisk /\ file_vector \in BatchLists
     \/ disk \in GeneratedDisks /\ file_vector = <<"x.fit">>
  /\ is_acceptance_corrected \in BOOLEAN
  /\ pc = "loop"
  /\ fi = 1 /\ ri = 1 /\ ai = 1 /\ pi = 1
  /\ standard_results = EmptyMap
  /\ production_coefficients = EmptyMap
  /\ coherent_sums = InitialSums
  /\ phase_diffs = EmptyMap
  /\ csv_file = <<>>

\* FitResults results(file)
Results == disk[file_vector[fi]]
\* the reaction and the amplitude list the loops of fill_maps are at
Reaction == Results.reactionList[ri]
Amps == Results.ampList[Reaction]

\* the maps of the current state as one record
CurrentMaps ==
  Maps(standard_results, production_coefficients, coherent_sums, phase_diffs)

inputs == <<disk, file_vector, is_acceptance_corrected>>
maps == <<standard_results, production_coefficients, coherent_sums, phase_diffs>>

\* SkipInvalid leaving the file loop (break) instead of continuing it
SkipInvalid_Break ==
  /\ pc = "loop" /\ fi <= Len(file_vector)
  /\ ~Results.valid
  /\ pc' = "done"
  /\ UNCHANGED <<inputs, fi, ri, ai, pi, maps, csv_file>>

\* !results.valid(): the message is printed and the loop continues
SkipInvalid ==
  /\ pc = "loop" /\ fi <= Len(file_vector)
  /\ ~Results.valid
  /\ fi' = fi + 1
  /\ UNCHANGED <<inputs, pc, ri, ai, pi, maps, csv_file>>

\* a valid file: the four maps are cleared
ClearMaps ==
  /\ pc = "loop" /\ fi <= Len(file_vector)
  /\ Results.valid
  /\ standard_results' = EmptyMap
  /\ production_coefficients' = EmptyMap
  /\ coherent_sums' = ClearSums(coherent_sums)
  /\ phase_diffs' = EmptyMap
  /\ pc' = "fill"
  /\ UNCHANGED <<inputs, fi, ri, ai, pi, csv_file>>

\* fill_maps is entered: the standard results are stored
FillStandard ==
  /\ pc = "fill"
  /\ standard_results' = StoreStandardResults(Results, standard_results)
  /\ pc' = "amp"
  /\ UNCHANGED <<inputs, fi, ri, ai, pi, production_coefficients,
                 coherent_sums, phase_diffs, csv_file>>

\* the amplitude loop of a reaction is over: the next reaction
NextReaction ==
  /\ pc = "amp" /\ ri <= Len(Results.reactionList)
  /\ ai > Len(Amps)
  /\ ri' = ri + 1 /\ ai' = 1
  /\ UNCHANGED <<inputs, pc, fi, pi, maps, csv_file>>

\* an amplitude with the background marker
AmpBackground ==
  /\ pc = "amp" /\ ri <= Len(Results.reactionList)
  /\ ai <= Len(Amps)
  /\ IsBackground(Amps[ai])
  /\ coherent_sums' = StoreBackground(coherent_sums, Amps[ai])
  /\ ai' = ai + 1
  /\ UNCHANGED <<inputs, pc, fi, ri, pi, standard_results,
                 production_coefficients, phase_diffs, csv_file>>

\* any other amplitude: its coefficient and its seven sums are stored and
\* the loop over pd_amplitude is entered
AmpStore ==
  /\ pc = "amp" /\ ri <= Len(Results.reactionList)
  /\ ai <= Len(Amps)
  /\ ~IsBackground(Amps[ai])
  /\ production_coefficients' =
       StoreProductionCoefficient(Results, production_coefficients, Amps[ai])
  /\ coherent_sums' = StoreCoherentSums(coherent_sums, Amps[ai])
  /\ pi' = 1
  /\ pc' = "pd"
  /\ UNCHANGED <<inputs, fi, ri, ai, standard_results, phase_diffs, csv_file>>

\* one pass of the loop over pd_amplitude
PhaseDiffStep ==
  /\ pc = "pd"
  /\ pi <= Len(Amps)
  /\ phase_diffs' = StorePhaseDiff(phase_diffs, Amps[ai], Amps[pi])
  /\ pi' = pi + 1
  /\ UNCHANGED <<inputs, pc, fi, ri, ai, standard_results,
                 production_coefficients, coherent_sums, csv_file>>

\* the loop over pd_amplitude is over: the next amplitude
PhaseDiffDone ==
  /\ pc = "pd"
  /\ pi > Len(Amps)
  /\ pi' = 1 /\ ai' = ai + 1
  /\ pc' = "amp"
  /\ UNCHANGED <<inputs, fi, ri, maps, csv_file>>

\* the reaction loop is over: fill_maps returns
FillDone ==
  /\ pc = "amp" /\ ri > Len(Results.reactionList)
  /\ ri' = 1
  /\ pc' = "header"
  /\ UNCHANGED <<inputs, fi, ai, pi, maps, csv_file>>

\* csv_file.tellp() == 0: the header row and its "\n" are written
WriteHeader ==
  /\ pc = "header"
  /\ Len(csv_file) = 0
  /\ csv_file' = csv_file \o HeaderCells(Results, CurrentMaps) \o <<NewLine>>
  /\ pc' = "row"
  /\ UNCHANGED <<inputs, fi, ri, ai, pi, maps>>

\* csv_file.tellp() != 0: no header
SkipHeader ==
  /\ pc = "header"
  /\ Len(csv_file) # 0
  /\ pc' = "row"
  /\ UNCHANGED <<inputs, fi, ri, ai, pi, maps, csv_file>>

\* the values of the file are written and the file loop goes on
WriteRow ==
  /\ pc = "row"
  /\ csv_file' = csv_file
                   \o RowCells(Results, CurrentMaps, is_acceptance_corrected)
  /\ fi' = fi + 1
  /\ pc' = "loop"
  /\ UNCHANGED <<inputs, ri, ai, pi, maps>>

\* the file loop is over: extract_fit_results returns
Finish ==
  /\ pc = "loop" /\ fi > Len(file_vector)
  /\ pc' = "done"
  /\ UNCHANGED <<inputs, fi, ri, ai, pi, maps, csv_file>>

Next ==
  \/ SkipInvalid
  \/ ClearMaps
  \/ FillStandard
  \/ NextReaction
  \/ AmpBackground
  \/ AmpStore
  \/ PhaseDiffStep
  \/ PhaseDiffDone
  \/ FillDone
  \/ WriteHeader
  \/ SkipHeader
  \/ WriteRow
  \/ Finish

Spec == Init /\ [][Next]_vars

(***************************************************************************)
(* Vocabulary of the properties.                                           *)
(***************************************************************************)
\* fill_maps has returned for the current file and its row is not yet written
Filled == pc \in {"header", "row"}

\* the row of file fi - 1 has just been written: the maps are still that
\* file's and its row is the end of csv_file
JustWritten ==
  /\ pc = "loop" /\ fi > 1
  /\ disk[file_vector[fi - 1]].valid
Written == disk[file_vector[fi - 1]]

\* the amplitudes of a file, as a set and in iteration order
AmpSeq(results) ==
  Concat([i \in 1..Len(results.reactionList) |->
            results.ampList[results.reactionList[i]]])
AmpSet(results) == {AmpSeq(results)[i] : i \in 1..Len(AmpSeq(results))}

\* two amplitudes are listed together by some reaction of the file
ListedTogether(results, A, B) ==
  \E i \in 1..Len(results.reactionList) :
    LET amps == results.ampList[results.reactionList[i]]
    IN  /\ \E j \in 1..Len(amps) : amps[j] = A
        /\ \E j \in 1..Len(amps) : amps[j] = B

PairKey(A, B) == Segment(A) \o s_underscore \o Segment(B)
SameReflectivity(A, B) == parse_amplitude(A).e = parse_amplitude(B).e

Count(seq, x) == Cardinality({i \in 1..Len(seq) : seq[i] = x})
Members(seq) == {seq[i] : i \in 1..Len(seq)}
Tags == {coherent_sum_types[i] : i \in 1..Len(coherent_sum_types)}

\* the files of the list whose handle is valid, in list order
ValidFiles == SelectSeq(file_vector, LAMBDA p : disk[p].valid)

\* what fill_maps makes of a file alone, starting from empty maps
FreshMaps(results) ==
  fill_maps(results, Maps(EmptyMap, EmptyMap, InitialSums, EmptyMap))
FreshHeader(results) == HeaderCells(results, FreshMaps(results))
FreshRow(results) ==
  RowCells(results, FreshMaps(results), is_acceptance_corrected)

\* the csv of a run over the valid files alone
ValidFilesCsv ==
  IF ValidFiles = <<>> THEN <<>>
  ELSE FreshHeader(disk[ValidFiles[1]]) \o <<NewLine>>
       \o Concat([i \in 1..Len(ValidFiles) |-> FreshRow(disk[ValidFiles[i]])])

\* csv_file cut at its "\n"s; a last record without "\n" counts as a line
RECURSIVE SplitLines(_)
SplitLines(cells) ==
  IF cells = <<>> THEN <<>>
  ELSE LET nl == {i \in 1..Len(cells) : cells[i] = NewLine}
       IN  IF nl = {} THEN <<cells>>
           ELSE <<SubSeq(cells, 1, MinOf(nl) - 1)>>
                \o SplitLines(SubSeq(cells, MinOf(nl) + 1, Len(cells)))

\* the header row of csv_file
HeaderRow == SplitLines(csv_file)[1]

\* the number of cells the maps of a file give a row, the row last written,
\* and where the coherent-sum cells start in a row
NumGroups(cs) ==
  Cardinality({<<t, k>> \in (DOMAIN cs) \X UNION {DOMAIN cs[t] : t \in DOMAIN cs}
                 : k \in DOMAIN cs[t]})
NumFreeParameters(results) ==
  Cardinality({i \in 1..Len(results.parNameList) :
                 ~IsAmplitudeParameter(results.parNameList[i])})
SumOffset(results, M) ==
  Cardinality(DOMAIN M.standard_results) + 2 * NumFreeParameters(results)
  + 2 * Cardinality(DOMAIN M.production_coefficients)
RowLength(results, M) ==
  SumOffset(results, M) + 2 * NumGroups(M.coherent_sums)
  + 2 * Cardinality(DOMAIN M.phase_diffs)
LastRow ==
  SubSeq(csv_file, Len(csv_file) - RowLength(Written, CurrentMaps) + 1,
         Len(csv_file))

(***************************************************************************)
(* C1.  A file whose handle is not valid contributes nothing: the step     *)
(* that meets it changes no map and writes nothing and only moves on to    *)
(* the next file, and when the run is over the csv is the csv of the       *)
(* valid files alone, so every valid file after it was processed.          *)
(***************************************************************************)
C1_InvalidFileContributesNothing ==
  /\ [][(pc = "loop" /\ fi <= Len(file_vector) /\ ~Results.valid)
          => /\ maps' = maps
             /\ csv_file' = csv_file
             /\ pc' = "loop" /\ fi' = fi + 1]_vars
  /\ [](pc = "done" => csv_file = ValidFilesCsv)

\* a run that met an invalid file before a valid one, and is over
C1_Witness ==
  /\ pc = "done"
  /\ csv_file # <<>>
  /\ \E i, j \in 1..Len(file_vector) :
       i < j /\ ~disk[file_vector[i]].valid /\ disk[file_vector[j]].valid

(***************************************************************************)
(* C2.  When the run is over the csv is one header row followed by one     *)
(* row per valid file, in file order, each a record of its own: cut at     *)
(* its "\n"s, the csv is the header and then the k-th valid file's values  *)
(* as the k-th line.                                                       *)
(***************************************************************************)
C2_OneRowPerValidFile ==
  (pc = "done" /\ ValidFiles # <<>>) =>
    SplitLines(csv_file) =
      <<FreshHeader(disk[ValidFiles[1]])>>
      \o [i \in 1..Len(ValidFiles) |-> FreshRow(disk[ValidFiles[i]])]

(***************************************************************************)
(* C3.  The header is that of the first valid file, and each row written   *)
(* matches it: as many cells as the header, and each cell the value of     *)
(* the column the header names at that position.                           *)
(***************************************************************************)
C3_RowMatchesHeader ==
  JustWritten =>
    LET own == HeaderCells(Written, CurrentMaps)
        row == RowCells(Written, CurrentMaps, is_acceptance_corrected)
    IN  /\ HeaderRow = FreshHeader(disk[ValidFiles[1]])
        /\ Len(LastRow) = Len(HeaderRow)
        /\ \A k \in 1..Len(HeaderRow) :
             \E j \in 1..Len(own) : own[j] = HeaderRow[k] /\ row[j] = LastRow[k]

(***************************************************************************)
(* C7.  The row of a file depends on that file alone: the seven tags are   *)
(* always present, every map is empty when fill_maps is entered, the maps  *)
(* fill_maps leaves are those it makes of the file from empty maps, and    *)
(* the row written is the row of the file processed alone.                 *)
(***************************************************************************)
C7_RowDependsOnlyOnFile ==
  /\ DOMAIN coherent_sums = Tags
  /\ pc = "fill" =>
       /\ standard_results = EmptyMap
       /\ production_coefficients = EmptyMap
       /\ phase_diffs = EmptyMap
       /\ \A tag \in DOMAIN coherent_sums : coherent_sums[tag] = EmptyMap
  /\ Filled => CurrentMaps = FreshMaps(Results)
  /\ JustWritten => LastRow = FreshRow(Written)

\* a row written after the row of a valid file with other amplitudes
C7_Witness ==
  /\ JustWritten
  /\ \E i \in 1..(fi - 2) :
       /\ disk[file_vector[i]].valid
       /\ AmpSet(disk[file_vector[i]]) # AmpSet(Written)

(***************************************************************************)
(* C8 as claimed.  For the file of one reaction that lists R1::S::p1p0S,   *)
(* R1::S::m1p0S, R1::S::p1ppD: the JP group "1p" is [R1::S::p1p0S,         *)
(* R1::S::p1ppD], p1p0S_p1ppD is a phase-difference key, and no            *)
(* phase-difference key or pair involves m1p0S.                            *)
(***************************************************************************)
ScenarioAmps ==
  <<AmpName(s_R1, s_S, s_p1p0S), AmpName(s_R1, s_S, s_m1p0S),
    AmpName(s_R1, s_S, s_p1ppD)>>
IsScenario(results) ==
  /\ results.reactionList = <<s_R1>>
  /\ results.ampList[s_R1] = ScenarioAmps

\* the phase-difference part of the scenario
ScenarioPhaseDiffs ==
  /\ (s_p1p0S \o s_underscore \o s_p1ppD) \in DOMAIN phase_diffs
  /\ \A key \in DOMAIN phase_diffs :
       /\ Find(key, s_m1p0S) = NPos
       /\ Segment(phase_diffs[key][1]) # s_m1p0S
       /\ Segment(phase_diffs[key][2]) # s_m1p0S

\* the JP group "1p" holds exactly the amplitudes amps, in that order
ScenarioGroup1p(amps) ==
  /\ s_JP \in DOMAIN coherent_sums
  /\ <<"1", "p">> \in DOMAIN coherent_sums[s_JP]
  /\ coherent_sums[s_JP][<<"1", "p">>] = amps

C8_ScenarioAsClaimed ==
  (Filled /\ IsScenario(Results)) =>
    /\ ScenarioGroup1p(<<AmpName(s_R1, s_S, s_p1p0S),
                         AmpName(s_R1, s_S, s_p1ppD)>>)
    /\ ScenarioPhaseDiffs

(***************************************************************************)
(* C8 as amended.  The JP tag sums over the reflectivity too, so its       *)
(* group "1p" holds all three amplitudes in list order, R1::S::m1p0S       *)
(* included; [R1::S::p1p0S, R1::S::p1ppD] is the eJP group "p1p".  The     *)
(* phase-difference part is as claimed.                                    *)
(***************************************************************************)
C8_ScenarioAmended ==
  (Filled /\ IsScenario(Results)) =>
    /\ ScenarioGroup1p(ScenarioAmps)
    /\ s_eJP \in DOMAIN coherent_sums
    /\ <<"p", "1", "p">> \in DOMAIN coherent_sums[s_eJP]
    /\ coherent_sums[s_eJP][<<"p", "1", "p">>] =
         <<AmpName(s_R1, s_S, s_p1p0S), AmpName(s_R1, s_S, s_p1ppD)>>
    /\ ScenarioPhaseDiffs

C8_Witness == Filled /\ IsScenario(Results) /\ phase_diffs # EmptyMap

(***************************************************************************)
(* C4 as claimed.  When fill_maps has returned, for every two amplitudes   *)
(* of the file with different eJPmL segments, equal reflectivity and no    *)
(* background marker, exactly one of the keys A_B and B_A is in            *)
(* phase_diffs.                                                            *)
(***************************************************************************)
\* an amplitude of a file with what the code reads off its name
Described(results) ==
  {[amp |-> A, eJPmL |-> Segment(A), background |-> IsBackground(A)]
     : A \in AmpSet(results)}
Key(a, b) == a.eJPmL \o s_underscore \o b.eJPmL

PhasePair(a, b) ==
  /\ a.amp # b.amp
  /\ ~a.background /\ ~b.background
  /\ a.eJPmL[1] = b.eJPmL[1]

ExactlyOneKey(a, b) ==
  Cardinality({Key(a, b), Key(b, a)} \cap DOMAIN phase_diffs) = 1

C5_PhaseDiffsWithinReflectivity ==
  /\ \A key \in DOMAIN phase_diffs :
       LET A == phase_diffs[key][1]
           B == phase_diffs[key][2]
       IN  /\ ~IsBackground(A) /\ ~IsBackground(B)
           /\ SameReflectivity(A, B)
           /\ key = PairKey(A, B)
  /\ (pc \in {"amp", "pd", "header", "row"}) =>
       \A a, b \in Described(Results) :
         (a.background \/ b.background \/ a.eJPmL[1] # b.eJPmL[1])
           => Key(a, b) \notin DOMAIN phase_diffs

\* a file with a background amplitude and both reflectivities, and a key
C5_Witness ==
  /\ Filled
  /\ phase_diffs # EmptyMap
  /\ \E A \in AmpSet(Results) : IsBackground(A)
  /\ \E A, B \in AmpSet(Results) :
       ~IsBackground(A) /\ ~IsBackground(B) /\ ~SameReflectivity(A, B)

(***************************************************************************)
(* C10.  No entry of phase_diffs pairs a quantum-number label with         *)
(* itself: the two amplitudes of every entry have different eJPmL          *)
(* segments.                                                               *)
(***************************************************************************)
C10_NoSelfPair ==
  \A key \in DOMAIN phase_diffs :
    Segment(phase_diffs[key][1]) # Segment(phase_diffs[key][2])

(***************************************************************************)
(* C6.  When fill_maps has returned, every amplitude without background    *)
(* marker is once in exactly one group of each of the seven tags, the      *)
(* group keyed by the fields the tag retains; a background amplitude is    *)
(* once in the group "Bkgd" of the tag eJPmL and nowhere else; and each    *)
(* group of each tag is the union of the eJPmL groups whose label maps to  *)
(* its key.                                                                *)
(***************************************************************************)
\* the key of a tag for an eJPmL label: the retained fields of its
\* fixed-width split (1 + 2 + 1 + rest characters)
KeyUnder(tag, eJPmL) ==
  LET e == Substr(eJPmL, 0, 1)
      JP == Substr(eJPmL, 1, 2)
      m == Substr(eJPmL, 3, 1)
      L == SubstrFrom(eJPmL, 4)
  IN  CASE tag = s_eJPmL -> eJPmL
        [] tag = s_JPmL -> JP \o m \o L
        [] tag = s_eJPL -> e \o JP \o L
        [] tag = s_JPL -> JP \o L
        [] tag = s_eJP -> e \o JP
        [] tag = s_JP -> JP
        [] tag = s_e -> e

C6_SevenGroupsRefined ==
  Filled =>
    /\ DOMAIN coherent_sums = Tags
    /\ \A a \in Described(Results) : \A tag \in Tags :
         LET home == IF a.background THEN s_Bkgd ELSE KeyUnder(tag, a.eJPmL)
             here == ~a.background \/ tag = s_eJPmL
         IN  /\ here => home \in DOMAIN coherent_sums[tag]
             /\ \A key \in DOMAIN coherent_sums[tag] :
                  Count(coherent_sums[tag][key], a.amp) =
                    IF here /\ key = home THEN 1 ELSE 0
    /\ \A tag \in Tags : \A key \in DOMAIN coherent_sums[tag] :
         Members(coherent_sums[tag][key]) =
           UNION {Members(coherent_sums[s_eJPmL][label])
                    : label \in {l \in DOMAIN coherent_sums[s_eJPmL]
                                   : KeyUnder(tag, l) = key}}

\* a file with a background amplitude and a JP group of several waves
C6_Witness ==
  /\ Filled
  /\ s_Bkgd \in DOMAIN coherent_sums[s_eJPmL]
  /\ \E key \in DOMAIN coherent_sums[s_JP] :
       Cardinality({Segment(A) : A \in Members(coherent_sums[s_JP][key])}) >= 2

(***************************************************************************)
(* C9 as claimed.  In the header the coherent-sum columns of a tag come    *)
(* in first-seen order: a group whose first member is met earlier in the   *)
(* reaction/amplitude iteration has its column before a group of the same  *)
(* tag whose first member is met later.                                    *)
(***************************************************************************)
\* the file whose row was just written also wrote the header
WroteHeader ==
  /\ JustWritten
  /\ \A i \in 1..(fi - 2) : ~disk[file_vector[i]].valid

Groups(cs) ==
  UNION {{<<tag, key>> : key \in DOMAIN cs[tag]} : tag \in DOMAIN cs}

\* where an amplitude is first met when the reactions are iterated
FirstSeen(results, amplitude) ==
  MinOf({i \in 1..Len(AmpSeq(results)) : AmpSeq(results)[i] = amplitude})

\* the cells of the coherent sums in a row of the file just written
SumCells(row) ==
  SubSeq(row, SumOffset(Written, CurrentMaps) + 1,
         SumOffset(Written, CurrentMaps) + 2 * NumGroups(coherent_sums))

\* the column the header gives to the group keyed key
HeaderColumn(key) ==
  MinOf({i \in 1..Len(SumCells(HeaderRow))
           : SumCells(HeaderRow)[i] = NameCell(key)})

C9_FirstSeenOrder ==
  WroteHeader =>
    \A tag \in DOMAIN coherent_sums : \A k1, k2 \in DOMAIN coherent_sums[tag] :
      FirstSeen(Written, coherent_sums[tag][k1][1])
        < FirstSeen(Written, coherent_sums[tag][k2][1])
      => HeaderColumn(k1) < HeaderColumn(k2)

(***************************************************************************)
(* C9 as amended.  The coherent-sum columns come in the key order of the   *)
(* maps, whatever the order the amplitudes are listed in: the tags in      *)
(* ascending byte order (JP, JPL, JPmL, e, eJP, eJPL, eJPmL) and the       *)
(* groups of a tag in ascending byte order of their keys.  The value and   *)
(* the error of a group are at that place in every row, and its name and   *)
(* name_err are at that place in the header written by the same file.      *)
(***************************************************************************)
\* the number of groups that are before or at <<tag, key>> in key order
KeyRank(cs, tag, key) ==
  Cardinality({g \in Groups(cs) :
                 \/ StringLess(g[1], tag)
                 \/ g[1] = tag /\ (g[2] = key \/ StringLess(g[2], key))})

C9_KeyOrder ==
  JustWritten =>
    \A g \in Groups(coherent_sums) :
      LET at == 2 * KeyRank(coherent_sums, g[1], g[2])
          group == coherent_sums[g[1]][g[2]]
      IN  /\ SumCells(LastRow)[at - 1] =
               intensityOf(Written, group, is_acceptance_corrected, "first")
          /\ SumCells(LastRow)[at] =
               intensityOf(Written, group, is_acceptance_corrected, "second")
          /\ WroteHeader =>
               /\ SumCells(HeaderRow)[at - 1] = NameCell(g[2])
               /\ SumCells(HeaderRow)[at] = NameCell(g[2] \o s_err)

\* a header whose groups were first seen in another order than key order
C9_Witness ==
  /\ WroteHeader
  /\ \E k1, k2 \in DOMAIN coherent_sums[s_eJPmL] :
       /\ StringLess(k1, k2)
       /\ FirstSeen(Written, coherent_sums[s_eJPmL][k2][1])
            < FirstSeen(Written, coherent_sums[s_eJPmL][k1][1])

====
